---------------------------- MODULE Spec2Model ----------------------------
(***************************************************************************)
(* QRScanner: the WiFi payload builder and validator of                    *)
(* frontend/src/utils/qrGenerator.ts, the Redis-backed authentication      *)
(* middleware (advancedAuth, SessionManager, TokenManager, AuditLogger),   *)
(* the QR-code REST routes of backend/routes/qrcodes.js, the login lockout *)
(* of backend/models/User.js, the batch generator generateBatchQRCodes and *)
(* the WiFi payload parser parseWiFiQR of utils/qrScanner.ts.              *)
(*                                                                         *)
(* Strings are sequences of one-character strings, so that escaping and    *)
(* length checks are computed character by character as the code does.     *)
(* Each subsystem has its own specifications (SpecWiFi; SpecCreate and     *)
(* SpecSession; SpecAuth, SpecRevoke, SpecOptional and SpecRole;           *)
(* SpecRoutes; SpecLockout; SpecBatch and SpecBatchLive; SpecRoundTrip); a *)
(* specification leaves the variables of the other subsystems untouched.   *)
(***************************************************************************)
EXTENDS Integers, Sequences, FiniteSets, TLC

VARIABLES
    config,        \* the WiFiConfig handed to generateWiFiQRCode
    wpc,           \* position of the generateWiFiQRCode call
    validation,    \* ValidationResult of the current call
    wifiString,    \* createWiFiString(config) as computed in the current call
    werr,          \* QRCodeError.code the call rejected with, or "none"
    encoderInvoked,\* QRCode.toDataURL was invoked by the current call
    cache,         \* QRCodeCache.cache: set of [key, stale]
    cacheAtCall,   \* QRCodeCache.cache when the current call started
    sessionStore,  \* Redis: the ids s whose key session:<s> exists
    userSessions,  \* Redis: the list under user_sessions:<userId> (<<>> when absent)
    nextSid,       \* number of session ids drawn from crypto.randomUUID so far
    newCount,      \* number of createSession calls started
    calls,         \* the SessionManager calls in flight, one per caller
    created,       \* history: ids returned by completed createSession calls
    terminated,    \* history: ids created before a completed invalidateAllUserSessions
    allStarted,    \* history: an invalidateAllUserSessions call has begun
    allAlone,      \* history: the invalidateAllUserSessions in flight is the first one and
                   \* no other call ran during it
    staleAccepted, \* history: a validateSession begun after the termination of its session
                   \* returned the session
    reqs,          \* the requests in flight through advancedAuth or logout, one per slot
    held,          \* the token the user holds
    blockedRem,    \* Redis: remaining life of blocked_ip:<ip>, 0 when the key is absent
    suspCount,     \* Redis: the counter suspicious:<ip>, 0 when the key is absent
    suspRem,       \* Redis: remaining life of suspicious:<ip>
    blacklistRem,  \* Redis: remaining life of blacklist:<sha256(token)>, 0 when absent
    tokenRem,      \* time left until the exp of the user's token, 0 when expired
    ticks,         \* number of half seconds let pass
    hours,         \* number of hours let pass
    revoked,       \* history: logout answered success for the user's unexpired token
    blockSetAt,    \* history: the hour in which blocked_ip was last set, -1 if never
    records,       \* MongoDB: the QRCode collection, by _id
    nextId,        \* the number of _ids handed out
    toggles,       \* the favorite requests between their findOne and their save, by user
    response,      \* the latest response of the QR-code routes
    foreignTouched, \* history: a route returned or changed a record of another user
    wrongAnswer,   \* history: a request naming another user's record was not answered 404
    user,          \* MongoDB: the login-attempt fields and the status of one user
    now,           \* the clock of the login attempts
    attempts,      \* number of login attempts made
    streak,        \* history: failures in a row with no gap of more than 2 hours
    streakSinceReset, \* history: those of them since the latest resetLoginAttempts
    latestFailAt,  \* history: the time of the latest failure
    restarted,     \* history: the latest login was a failure more than 2 hours after
                   \* the failure before it
    contents,      \* generateBatchQRCodes: the contents argument
    concurrency,   \* generateBatchQRCodes: the concurrency argument
    bpc,           \* generateBatchQRCodes: idle, running, resolved or rejected
    berr,          \* the code of the error the batch call rejected with
    itemPc,        \* per item: waiting on a semaphore slot, running, ok or failed
    awaited,       \* per item: the promise its map callback awaits
    semaphore,     \* the semaphore array: per slot the promise stored in it
    semaphoreIndex,
    successful,    \* the successful array
    failed,        \* the failed array
    scan           \* the latest scan: its content and what parseWiFiQR returned

wifiVars == <<config, wpc, validation, wifiString, werr, encoderInvoked, cache, cacheAtCall>>

sessVars == <<sessionStore, userSessions, nextSid, newCount, calls, created, terminated,
             allStarted, allAlone, staleAccepted>>

authVars == <<reqs, held, blockedRem, suspCount, suspRem, blacklistRem, tokenRem, ticks,
             hours, revoked, blockSetAt>>

sessGhostVars == <<nextSid, newCount, calls, created, terminated, allStarted, allAlone,
                  staleAccepted>>

routeVars == <<records, nextId, toggles, response, foreignTouched, wrongAnswer>>

lockVars == <<user, now, attempts, streak, streakSinceReset, latestFailAt, restarted>>

batchVars == <<contents, concurrency, bpc, berr, itemPc, awaited, semaphore, semaphoreIndex,
              successful, failed>>

vars == <<wifiVars, sessVars, authVars, routeVars, lockVars, batchVars, scan>>

nonWifiVars == <<sessVars, authVars, routeVars, lockVars, batchVars, scan>>

nonSessVars == <<wifiVars, authVars, routeVars, lockVars, batchVars, scan>>

nonAuthVars == <<wifiVars, sessGhostVars, routeVars, lockVars, batchVars, scan>>

nonRouteVars == <<wifiVars, sessVars, authVars, lockVars, batchVars, scan>>

nonLockVars == <<wifiVars, sessVars, authVars, routeVars, batchVars, scan>>

nonBatchVars == <<wifiVars, sessVars, authVars, routeVars, lockVars, scan>>

----------------------------------------------------------------------------
(* Bounds of the model                                                     *)

MaxSsidLen == 1
MaxPwdLen == 1
MaxNewSessions == 2
MaxFailuresOverThreshold == 1
NearExpiry == 3
MaxTicks == 2
MaxHours == 1
MaxRecords == 2
MaxAttempts == 6
MaxClock == 8
MaxItems == 3
MaxConcurrency == 2

----------------------------------------------------------------------------
(* Strings                                                                 *)

Undefined == <<"<undefined>">>

Alphabet == {"a", " ", ";", ":", ",", "\"", "\\"}

RECURSIVE StringsUpTo(_)
StringsUpTo(n) ==
    IF n = 0 THEN {<<>>}
    ELSE LET shorter == StringsUpTo(n - 1)
         IN  shorter \cup {Append(s, c) : s \in {t \in shorter : Len(t) = n - 1}, c \in Alphabet}

RECURSIVE Rep(_, _)
Rep(c, n) == IF n = 0 THEN <<>> ELSE <<c>> \o Rep(c, n - 1)

\* String.prototype.trim: leading and trailing white space removed
RECURSIVE TrimLeft(_)
TrimLeft(s) == IF s # <<>> /\ Head(s) = " " THEN TrimLeft(Tail(s)) ELSE s

RECURSIVE TrimRight(_)
TrimRight(s) ==
    IF s # <<>> /\ s[Len(s)] = " " THEN TrimRight(SubSeq(s, 1, Len(s) - 1)) ELSE s

Trim(s) == TrimRight(TrimLeft(s))

Includes(s, c) == \E i \in 1..Len(s) : s[i] = c

StartsWith(s, p) == Len(s) >= Len(p) /\ SubSeq(s, 1, Len(p)) = p

\* str.replace(/c/g, r): every occurrence of the character c replaced by r
RECURSIVE ReplaceAll(_, _, _)
ReplaceAll(s, c, r) ==
    IF s = <<>> THEN <<>>
    ELSE (IF Head(s) = c THEN r ELSE <<Head(s)>>) \o ReplaceAll(Tail(s), c, r)

----------------------------------------------------------------------------
(* qrGenerator.ts: WiFi payload                                            *)

WPA == <<"W", "P", "A">>
WPA2 == <<"W", "P", "A", "2">>
WPA3 == <<"W", "P", "A", "3">>
WEP == <<"W", "E", "P">>
nopass == <<"n", "o", "p", "a", "s", "s">>

MaxSsidChars == 32
MaxPasswordChars == 63
MinWpaPasswordChars == 8

validSecurityTypes == {WPA, WPA2, WPA3, WEP, nopass, <<>>}

\* escapeWiFiString with the backslash pass last instead of first
escapeWiFiStringBackslashLast(str) ==
    LET s0 == IF str = Undefined THEN <<>> ELSE str
        s1 == ReplaceAll(s0, "\"", <<"\\", "\"">>)
        s2 == ReplaceAll(s1, ";", <<"\\", ";">>)
        s3 == ReplaceAll(s2, ",", <<"\\", ",">>)
        s4 == ReplaceAll(s3, ":", <<"\\", ":">>)
    IN  ReplaceAll(s4, "\\", <<"\\", "\\">>)

escapeWiFiString(str) ==
    LET s0 == IF str = Undefined THEN <<>> ELSE str
        s1 == ReplaceAll(s0, "\\", <<"\\", "\\">>)
        s2 == ReplaceAll(s1, "\"", <<"\\", "\"">>)
        s3 == ReplaceAll(s2, ";", <<"\\", ";">>)
        s4 == ReplaceAll(s3, ",", <<"\\", ",">>)
    IN  ReplaceAll(s4, ":", <<"\\", ":">>)

\* `${config.hidden === true}`
HiddenText(h) == IF h = "true" THEN <<"t", "r", "u", "e">> ELSE <<"f", "a", "l", "s", "e">>

\* x || y on strings: the empty and the undefined string are falsy
OrElse(x, y) == IF x = Undefined \/ x = <<>> THEN y ELSE x

Truthy(x) == x # Undefined /\ x # <<>>

createWiFiString(c) ==
    <<"W", "I", "F", "I", ":", "T", ":">> \o OrElse(c.security, nopass)
      \o <<";", "S", ":">> \o escapeWiFiString(c.ssid)
      \o <<";", "P", ":">> \o escapeWiFiString(OrElse(c.password, <<>>))
      \o <<";", "H", ":">> \o HiddenText(c.hidden) \o <<";", ";">>

\* validateWiFiConfig accepting an SSID of up to 33 characters
validateWiFiConfigOffByOne(c) ==
    LET ssidMissing == c.ssid = Undefined \/ Trim(c.ssid) = <<>>
        e1 == IF ssidMissing THEN <<"SSID_REQUIRED">>
              ELSE IF Len(c.ssid) > MaxSsidChars + 1 THEN <<"SSID_TOO_LONG">> ELSE <<>>
        e2 == IF Truthy(c.security) /\ c.security \notin validSecurityTypes
              THEN <<"INVALID_SECURITY">> ELSE <<>>
        e3 == IF Truthy(c.security) /\ c.security # nopass /\ ~Truthy(c.password)
              THEN <<"PASSWORD_REQUIRED">>
              ELSE IF Truthy(c.password) /\ Len(c.password) > MaxPasswordChars
                   THEN <<"PASSWORD_TOO_LONG">> ELSE <<>>
        errors == e1 \o e2 \o e3
    IN  [isValid |-> errors = <<>>, errors |-> errors, warnings |-> <<>>,
         suggestions |-> <<>>, capacityLen |-> Len(createWiFiString(c))]

validateWiFiConfig(c) ==
    LET ssidMissing == c.ssid = Undefined \/ Trim(c.ssid) = <<>>
        e1 == IF ssidMissing THEN <<"SSID_REQUIRED">>
              ELSE IF Len(c.ssid) > MaxSsidChars THEN <<"SSID_TOO_LONG">> ELSE <<>>
        w1 == IF ~ssidMissing
                 /\ (Includes(c.ssid, ";") \/ Includes(c.ssid, ":") \/ Includes(c.ssid, ","))
              THEN <<"SSID_SPECIAL_CHARS">> ELSE <<>>
        e2 == IF Truthy(c.security) /\ c.security \notin validSecurityTypes
              THEN <<"INVALID_SECURITY">> ELSE <<>>
        pwdRequired == Truthy(c.security) /\ c.security # nopass /\ ~Truthy(c.password)
        e3 == IF pwdRequired THEN <<"PASSWORD_REQUIRED">>
              ELSE IF Truthy(c.password) /\ Len(c.password) > MaxPasswordChars
                   THEN <<"PASSWORD_TOO_LONG">> ELSE <<>>
        w2 == IF ~pwdRequired /\ Truthy(c.password)
                 /\ c.security # Undefined /\ StartsWith(c.security, WPA)
                 /\ Len(c.password) < MinWpaPasswordChars
              THEN <<"WPA_PASSWORD_SHORT">> ELSE <<>>
        w3 == IF c.security = WEP THEN <<"WEP_DEPRECATED">> ELSE <<>>
        g3 == IF c.security = WEP THEN <<"UPGRADE_TO_WPA2">> ELSE <<>>
        w4 == IF c.security = nopass THEN <<"OPEN_NETWORK">> ELSE <<>>
        g4 == IF c.security = nopass THEN <<"ADD_PASSWORD">> ELSE <<>>
        errors == e1 \o e2 \o e3
    IN  [isValid |-> errors = <<>>,
         errors |-> errors,
         warnings |-> w1 \o w2 \o w3 \o w4,
         suggestions |-> g3 \o g4,
         capacityLen |-> Len(createWiFiString(c))]

----------------------------------------------------------------------------
(* Inputs                                                                  *)

Ssids == StringsUpTo(MaxSsidLen) \cup {Undefined, Rep("a", MaxSsidChars),
                                        Rep("a", MaxSsidChars + 1), Rep(" ", MaxSsidChars + 1)}

Passwords == StringsUpTo(MaxPwdLen) \cup {Undefined, Rep("a", MinWpaPasswordChars),
                                          Rep("a", MaxPasswordChars),
                                          Rep("a", MaxPasswordChars + 1)}

Securities == validSecurityTypes \cup {<<"W", "P", "A", "4">>}

Hiddens == {"true", "false", "undefined"}

Configs == [ssid : Ssids, password : Passwords, security : Securities, hidden : Hiddens]

NoValidation == [isValid |-> FALSE, errors |-> <<>>, warnings |-> <<>>,
                 suggestions |-> <<>>, capacityLen |-> 0]

----------------------------------------------------------------------------
(* QRCodeCache and generateQRCode                                          *)

\* cacheKey = JSON.stringify({content, options}); generateWiFiQRCode passes
\* the same options on every call, so the content identifies the key
CacheHit(key) == \E e \in cache : e.key = key /\ ~e.stale

\* QRCodeCache.get deletes the entry it does not return
CacheAfterGet(key) == IF CacheHit(key) THEN cache ELSE {e \in cache : e.key # key}

\* generateWiFiQRCode that skips the validation throw
GenerateWiFiQRCodeNoValidation ==
    /\ wpc = "idle"
    /\ LET v == validateWiFiConfig(config)
           s == createWiFiString(config)
       IN  /\ validation' = v
           /\ wifiString' = s
           /\ cacheAtCall' = cache
           /\ IF CacheHit(s)
              THEN /\ wpc' = "resolved"
                   /\ UNCHANGED <<werr, encoderInvoked, cache>>
              ELSE /\ wpc' = "encoding"
                   /\ encoderInvoked' = TRUE
                   /\ cache' = CacheAfterGet(s)
                   /\ UNCHANGED werr
    /\ UNCHANGED config
    /\ UNCHANGED nonWifiVars

\* generateWiFiQRCode up to its first await: validation, payload, cache lookup
GenerateWiFiQRCode ==
    /\ wpc = "idle"
    /\ LET v == validateWiFiConfig(config)
           s == createWiFiString(config)
       IN  /\ validation' = v
           /\ wifiString' = s
           /\ cacheAtCall' = cache
           /\ IF ~v.isValid
              THEN /\ wpc' = "rejected"
                   /\ werr' = "INVALID_WIFI_CONFIG"
                   /\ UNCHANGED <<encoderInvoked, cache>>
              ELSE IF Trim(s) = <<>>
              THEN /\ wpc' = "rejected"
                   /\ werr' = "EMPTY_CONTENT"
                   /\ UNCHANGED <<encoderInvoked, cache>>
              ELSE IF CacheHit(s)
              THEN /\ wpc' = "resolved"
                   /\ UNCHANGED <<werr, encoderInvoked, cache>>
              ELSE /\ wpc' = "encoding"
                   /\ encoderInvoked' = TRUE
                   /\ cache' = CacheAfterGet(s)
                   /\ UNCHANGED werr
    /\ UNCHANGED config
    /\ UNCHANGED nonWifiVars

\* QRCode.toDataURL resolves: the image is cached and returned
EncoderResolves ==
    /\ wpc = "encoding"
    /\ cache' = {e \in cache : e.key # wifiString} \cup {[key |-> wifiString, stale |-> FALSE]}
    /\ wpc' = "resolved"
    /\ UNCHANGED <<config, validation, wifiString, werr, encoderInvoked, cacheAtCall>>
    /\ UNCHANGED nonWifiVars

\* QRCode.toDataURL throws: generateQRCode rethrows GENERATION_FAILED
EncoderThrows ==
    /\ wpc = "encoding"
    /\ wpc' = "rejected"
    /\ werr' = "GENERATION_FAILED"
    /\ UNCHANGED <<config, validation, wifiString, encoderInvoked, cache, cacheAtCall>>
    /\ UNCHANGED nonWifiVars

\* the caller asks again for the same config
CallAgain ==
    /\ wpc \in {"resolved", "rejected"}
    /\ wpc' = "idle"
    /\ validation' = NoValidation
    /\ wifiString' = <<>>
    /\ werr' = "none"
    /\ encoderInvoked' = FALSE
    /\ cacheAtCall' = cache
    /\ UNCHANGED <<config, cache>>
    /\ UNCHANGED nonWifiVars

\* more than QRCodeCache.TTL passes: the cached entries are stale
CacheTtlPasses ==
    /\ wpc \in {"idle", "resolved"}
    /\ \E e \in cache : ~e.stale
    /\ cache' = {[key |-> e.key, stale |-> TRUE] : e \in cache}
    /\ UNCHANGED <<config, wpc, validation, wifiString, werr, encoderInvoked, cacheAtCall>>
    /\ UNCHANGED nonWifiVars

----------------------------------------------------------------------------
(* useQRCodes.ts: SessionManager over Redis, for one user id.  Every await *)
(* of a Redis command is a step; calls of different callers interleave.    *)

MAX_CONCURRENT_SESSIONS == 5

Callers == {1, 2}

IdleCall == [op |-> "idle", pc |-> "idle", sid |-> 0, sessions |-> <<>>,
             oldest |-> 0, afterTerminate |-> FALSE]

SeqToSet(s) == {s[i] : i \in 1..Len(s)}

OthersQuiet(c) == \A d \in Callers \ {c} : calls[d].pc = "idle"

\* a step of caller c while another caller runs invalidateAllUserSessions
Disturbs(c) == \E d \in Callers \ {c} :
                  calls[d].op = "invalidateAll"

AllAloneAfterStepOf(c) == IF Disturbs(c) THEN FALSE ELSE allAlone

\* createSession: a fresh id, then RedisManager.set(session:<id>)
CreateSessionSet(c) ==
    /\ calls[c].pc = "idle"
    /\ newCount < MaxNewSessions
    /\ newCount' = newCount + 1
    /\ nextSid' = nextSid + 1
    /\ sessionStore' = sessionStore \cup {nextSid + 1}
    /\ calls' = [calls EXCEPT ![c] = [IdleCall EXCEPT !.op = "createSession",
                                                      !.pc = "addGet", !.sid = nextSid + 1]]
    /\ allAlone' = AllAloneAfterStepOf(c)
    /\ UNCHANGED <<userSessions, created, terminated, staleAccepted, allStarted>>
    /\ UNCHANGED nonSessVars

\* addUserSession: RedisManager.get(user_sessions), push, choose the eviction
AddUserSessionGet(c) ==
    /\ calls[c].op = "createSession" /\ calls[c].pc = "addGet"
    /\ LET pushed == Append(userSessions, calls[c].sid)
       IN  calls' = [calls EXCEPT ![c] =
                IF Len(pushed) > MAX_CONCURRENT_SESSIONS
                THEN [@ EXCEPT !.pc = "addInvalidate", !.oldest = Head(pushed),
                               !.sessions = Tail(pushed)]
                ELSE [@ EXCEPT !.pc = "addSet", !.sessions = pushed]]
    /\ allAlone' = AllAloneAfterStepOf(c)
    /\ UNCHANGED <<sessionStore, userSessions, nextSid, newCount, created, terminated, staleAccepted, allStarted>>
    /\ UNCHANGED nonSessVars

\* addUserSession: invalidateSession(oldestSession)
AddUserSessionInvalidate(c) ==
    /\ calls[c].op = "createSession" /\ calls[c].pc = "addInvalidate"
    /\ sessionStore' = sessionStore \ {calls[c].oldest}
    /\ calls' = [calls EXCEPT ![c].pc = "addSet"]
    /\ allAlone' = AllAloneAfterStepOf(c)
    /\ UNCHANGED <<userSessions, nextSid, newCount, created, terminated, staleAccepted, allStarted>>
    /\ UNCHANGED nonSessVars

\* addUserSession: RedisManager.set(user_sessions, sessions); createSession returns
AddUserSessionSet(c) ==
    /\ calls[c].op = "createSession" /\ calls[c].pc = "addSet"
    /\ userSessions' = calls[c].sessions
    /\ created' = created \cup {calls[c].sid}
    /\ calls' = [calls EXCEPT ![c] = IdleCall]
    /\ allAlone' = AllAloneAfterStepOf(c)
    /\ UNCHANGED <<sessionStore, nextSid, newCount, terminated, staleAccepted, allStarted>>
    /\ UNCHANGED nonSessVars

\* validateSession: RedisManager.get(session:<id>)
ValidateSessionGet(c) ==
    /\ calls[c].pc = "idle"
    /\ \E s \in 1..nextSid :
          /\ calls' = [calls EXCEPT ![c] =
                IF s \in sessionStore
                THEN [IdleCall EXCEPT !.op = "validateSession", !.pc = "validateSet",
                                      !.sid = s, !.afterTerminate = (s \in terminated)]
                ELSE IdleCall]
    /\ allAlone' = AllAloneAfterStepOf(c)
    /\ UNCHANGED <<sessionStore, userSessions, nextSid, newCount, created, terminated, staleAccepted, allStarted>>
    /\ UNCHANGED nonSessVars

\* validateSession: RedisManager.set(session:<id>) with the new lastActivity
ValidateSessionSet(c) ==
    /\ calls[c].op = "validateSession" /\ calls[c].pc = "validateSet"
    /\ sessionStore' = sessionStore \cup {calls[c].sid}
    /\ calls' = [calls EXCEPT ![c] = IdleCall]
    /\ staleAccepted' = (staleAccepted \/ calls[c].afterTerminate)
    /\ allAlone' = AllAloneAfterStepOf(c)
    /\ UNCHANGED <<userSessions, nextSid, newCount, created, terminated, allStarted>>
    /\ UNCHANGED nonSessVars

\* logout: invalidateSession(decoded.sessionId)
InvalidateSession(c) ==
    /\ calls[c].pc = "idle"
    /\ \E s \in 1..nextSid :
          /\ sessionStore' = sessionStore \ {s}
          /\ calls' = [calls EXCEPT ![c] = IdleCall]
    /\ allAlone' = AllAloneAfterStepOf(c)
    /\ UNCHANGED <<userSessions, nextSid, newCount, created, terminated, staleAccepted, allStarted>>
    /\ UNCHANGED nonSessVars

\* invalidateAllUserSessions: RedisManager.get(user_sessions)
InvalidateAllGet(c) ==
    /\ calls[c].pc = "idle"
    /\ \A d \in Callers \ {c} : calls[d].op # "invalidateAll"
    /\ calls' = [calls EXCEPT ![c] =
                    [IdleCall EXCEPT !.op = "invalidateAll", !.pc = "allLoop",
                                     !.sessions = userSessions]]
    /\ allAlone' = (OthersQuiet(c) /\ ~allStarted)
    /\ allStarted' = TRUE
    /\ UNCHANGED <<sessionStore, userSessions, nextSid, newCount, created, terminated, staleAccepted>>
    /\ UNCHANGED nonSessVars

\* invalidateAllUserSessions: invalidateSession of the next id of the list read
InvalidateAllLoop(c) ==
    /\ calls[c].op = "invalidateAll" /\ calls[c].pc = "allLoop"
    /\ calls[c].sessions # <<>>
    /\ sessionStore' = sessionStore \ {Head(calls[c].sessions)}
    /\ calls' = [calls EXCEPT ![c].sessions = Tail(@)]
    /\ UNCHANGED <<userSessions, nextSid, newCount, created, terminated, allAlone, staleAccepted, allStarted>>
    /\ UNCHANGED nonSessVars

\* invalidateAllUserSessions: RedisManager.del(user_sessions); the call completes
InvalidateAllDel(c) ==
    /\ calls[c].op = "invalidateAll" /\ calls[c].pc = "allLoop"
    /\ calls[c].sessions = <<>>
    /\ userSessions' = <<>>
    /\ terminated' = IF allAlone THEN terminated \cup created ELSE terminated
    /\ calls' = [calls EXCEPT ![c] = IdleCall]
    /\ UNCHANGED <<sessionStore, nextSid, newCount, created, allAlone, staleAccepted, allStarted>>
    /\ UNCHANGED nonSessVars

\* the sessions left by k earlier logins, one after the other
InitSession ==
    /\ \E k \in 0..MAX_CONCURRENT_SESSIONS :
          /\ sessionStore = 1..k
          /\ userSessions = [i \in 1..k |-> i]
          /\ nextSid = k
          /\ created = 1..k
    /\ newCount = 0
    /\ calls = [c \in Callers |-> IdleCall]
    /\ terminated = {}
    /\ allStarted = FALSE
    /\ allAlone = FALSE
    /\ staleAccepted = FALSE

WiFiAtRest ==
    /\ config = [ssid |-> <<>>, password |-> <<>>, security |-> <<>>, hidden |-> "false"]
    /\ wpc = "idle"
    /\ validation = NoValidation
    /\ wifiString = <<>>
    /\ werr = "none"
    /\ encoderInvoked = FALSE
    /\ cache = {}
    /\ cacheAtCall = {}

SessionAtRest ==
    /\ sessionStore = {}
    /\ userSessions = <<>>
    /\ nextSid = 0
    /\ newCount = 0
    /\ calls = [c \in Callers |-> IdleCall]
    /\ created = {}
    /\ terminated = {}
    /\ allStarted = FALSE
    /\ allAlone = FALSE
    /\ staleAccepted = FALSE

NextCreate ==
    \E c \in Callers :
        \/ CreateSessionSet(c)
        \/ AddUserSessionGet(c)
        \/ AddUserSessionInvalidate(c)
        \/ AddUserSessionSet(c)

NextSession ==
    \E c \in Callers :
        \/ CreateSessionSet(c)
        \/ AddUserSessionGet(c)
        \/ AddUserSessionInvalidate(c)
        \/ AddUserSessionSet(c)
        \/ ValidateSessionGet(c)
        \/ ValidateSessionSet(c)
        \/ InvalidateSession(c)
        \/ InvalidateAllGet(c)
        \/ InvalidateAllLoop(c)
        \/ InvalidateAllDel(c)



----------------------------------------------------------------------------
(* useQRCodes.ts: advancedAuth and logout over Redis, for the requests of  *)
(* one client IP.  Time is counted in half seconds, so that Math.floor in  *)
(* blacklistToken is computed as the code computes it.  The environment is *)
(* at its defaults (STRICT_IP_VALIDATION and ENABLE_DEVICE_TRACKING unset),*)
(* Redis and MongoDB answer every command, and the Redis client behaves as *)
(* RedisManager expects of it.                                             *)

SUSPICIOUS_ACTIVITY_THRESHOLD == 5
ACCESS_TOKEN_EXPIRY_SECONDS == 900
BLOCK_TTL_SECONDS == 3600
SUSPICIOUS_TTL_SECONDS == 3600
STRICT_IP_VALIDATION == FALSE

HalfSeconds(s) == 2 * s

Slots == {1, 2}

\* the tokens signed by generateTokenPair for the active user: with or without sessionId
UserTokens == {"tSess", "tPlain"}

\* the Authorization headers of the requests: none, a token that does not verify, the
\* user's token, a token for a user id that is not in the database and a token of a
\* deactivated user
Tokens == {"none", "tBad", "tGone", "tOff"} \cup UserTokens

TokenSessionId(tok) == IF tok = "tSess" THEN 1 ELSE 0

UserFound(tok) == tok \in {"tOff"} \cup UserTokens

UserIsActive(tok) == tok \in UserTokens

AllChecks == {"ip", "token", "blacklist", "jwt", "session", "user", "count"}

IdleReq == [pc |-> "idle", tok |-> "none", code |-> "none", status |-> 0,
            examined |-> FALSE, passed |-> {}, afterRevoke |-> FALSE,
            checkedLive |-> FALSE, afterBlock |-> FALSE, withinHour |-> FALSE,
            wrapper |-> "none", noToken |-> FALSE, roles |-> {}]

InFlight == Cardinality({r \in Slots : reqs[r].pc \notin {"idle", "logoutSession"}})

\* throw new AuthError / SecurityError: control passes to the catch block
Thrown(q, code, status) == [q EXCEPT !.pc = "track", !.code = code, !.status = status]

\* a request arrives without the blocked_ip lookup
AuthIpCheckSkipped(r) ==
    /\ reqs[r].pc = "idle"
    /\ suspCount + InFlight < SUSPICIOUS_ACTIVITY_THRESHOLD + MaxFailuresOverThreshold
    /\ \E tok \in {"none", "tBad", "tGone", "tOff", held} :
          LET q == [IdleReq EXCEPT !.tok = tok,
                                   !.passed = IF blockedRem > 0 THEN {} ELSE {"ip"},
                                   !.afterRevoke = (revoked /\ tok = held),
                                   !.afterBlock = (blockSetAt >= 0),
                                   !.withinHour = (blockSetAt = hours)]
          IN  reqs' = [reqs EXCEPT ![r] = [q EXCEPT !.pc = "token"]]
    /\ UNCHANGED <<held, blockedRem, suspCount, suspRem, blacklistRem, tokenRem, ticks,
                   hours, revoked, blockSetAt, sessionStore, userSessions>>
    /\ UNCHANGED nonAuthVars

\* a request arrives: RedisManager.get(blocked_ip:<clientIP>)
AuthIpCheck(r) ==
    /\ reqs[r].pc = "idle"
    /\ suspCount + InFlight < SUSPICIOUS_ACTIVITY_THRESHOLD + MaxFailuresOverThreshold
    /\ \E tok \in {"none", "tBad", "tGone", "tOff", held} :
          LET isBlocked == blockedRem > 0
              q == [IdleReq EXCEPT !.tok = tok,
                                   !.passed = IF blockedRem > 0 THEN {} ELSE {"ip"},
                                   !.afterRevoke = (revoked /\ tok = held),
                                   !.afterBlock = (blockSetAt >= 0),
                                   !.withinHour = (blockSetAt = hours)]
          IN  reqs' = [reqs EXCEPT ![r] =
                         IF isBlocked THEN Thrown(q, "IP_BLOCKED", 403)
                         ELSE [q EXCEPT !.pc = "token"]]
    /\ UNCHANGED <<held, blockedRem, suspCount, suspRem, blacklistRem, tokenRem, ticks,
                   hours, revoked, blockSetAt, sessionStore, userSessions>>
    /\ UNCHANGED nonAuthVars

\* jwt.verify: the signature, then exp against the clock
VerifyError(tok) ==
    IF tok = "tBad" THEN "INVALID_TOKEN"
    ELSE IF tokenRem = 0 THEN "TOKEN_EXPIRED"
    ELSE "none"

\* TokenManager.isTokenBlacklisted: RedisManager.get(blacklist:<sha256(token)>)
IsTokenBlacklisted(tok) == tok = held /\ blacklistRem > 0

\* the checks of the token that pass, whichever of them the code makes
TokenChecksPassed(tok) ==
    (IF tok # "none" THEN {"token"} ELSE {})
    \cup (IF ~IsTokenBlacklisted(tok) THEN {"blacklist"} ELSE {})
    \cup (IF tok # "none" /\ VerifyError(tok) = "none" THEN {"jwt"} ELSE {})
    \cup (IF TokenSessionId(tok) = 0 THEN {"session"} ELSE {})

\* the token checks without the isTokenBlacklisted lookup
AuthTokenCheckNoBlacklist(r) ==
    /\ reqs[r].pc = "token"
    /\ LET tok == reqs[r].tok
           q == [reqs[r] EXCEPT !.examined = TRUE,
                                !.checkedLive = (tok = held /\ tokenRem > 0),
                                !.passed = @ \cup TokenChecksPassed(tok)]
       IN  reqs' = [reqs EXCEPT ![r] =
                      IF tok = "none" THEN Thrown(q, "NO_TOKEN", 401)
                      ELSE IF VerifyError(tok) # "none" THEN Thrown(q, VerifyError(tok), 401)
                      ELSE IF TokenSessionId(tok) # 0 THEN [q EXCEPT !.pc = "sessionGet"]
                      ELSE [q EXCEPT !.pc = "user"]]
    /\ UNCHANGED <<held, blockedRem, suspCount, suspRem, blacklistRem, tokenRem, ticks,
                   hours, revoked, blockSetAt, sessionStore, userSessions>>
    /\ UNCHANGED nonAuthVars

\* the Authorization header, TokenManager.isTokenBlacklisted, TokenManager.verifyToken
AuthTokenCheck(r) ==
    /\ reqs[r].pc = "token"
    /\ LET tok == reqs[r].tok
           q == [reqs[r] EXCEPT !.examined = TRUE,
                                !.checkedLive = (tok = held /\ tokenRem > 0),
                                !.passed = @ \cup TokenChecksPassed(tok)]
       IN  reqs' = [reqs EXCEPT ![r] =
                      IF tok = "none" THEN Thrown(q, "NO_TOKEN", 401)
                      ELSE IF IsTokenBlacklisted(tok) THEN Thrown(q, "TOKEN_BLACKLISTED", 401)
                      ELSE IF VerifyError(tok) # "none" THEN Thrown(q, VerifyError(tok), 401)
                      ELSE IF TokenSessionId(tok) # 0 THEN [q EXCEPT !.pc = "sessionGet"]
                      ELSE [q EXCEPT !.pc = "user"]]
    /\ UNCHANGED <<held, blockedRem, suspCount, suspRem, blacklistRem, tokenRem, ticks,
                   hours, revoked, blockSetAt, sessionStore, userSessions>>
    /\ UNCHANGED nonAuthVars

\* SessionManager.validateSession: RedisManager.get(session:<id>)
AuthSessionGet(r) ==
    /\ reqs[r].pc = "sessionGet"
    /\ LET session == {TokenSessionId(reqs[r].tok)} \cap sessionStore
           q == [reqs[r] EXCEPT !.passed =
                    @ \cup (IF TokenSessionId(reqs[r].tok) \in sessionStore
                            THEN {"session"} ELSE {})]
       IN  reqs' = [reqs EXCEPT ![r] =
                      IF session = {} THEN Thrown(q, "INVALID_SESSION", 401)
                      ELSE [q EXCEPT !.pc = "sessionSet"]]
    /\ UNCHANGED <<held, blockedRem, suspCount, suspRem, blacklistRem, tokenRem, ticks,
                   hours, revoked, blockSetAt, sessionStore, userSessions>>
    /\ UNCHANGED nonAuthVars

\* SessionManager.validateSession: RedisManager.set(session:<id>); the IP of the session
\* is compared only in strict mode
AuthSessionSet(r) ==
    /\ reqs[r].pc = "sessionSet"
    /\ sessionStore' = sessionStore \cup {TokenSessionId(reqs[r].tok)}
    /\ reqs' = [reqs EXCEPT ![r] =
                  IF STRICT_IP_VALIDATION
                  THEN Thrown(reqs[r], "IP_MISMATCH", 403)
                  ELSE [reqs[r] EXCEPT !.pc = "user"]]
    /\ UNCHANGED <<held, blockedRem, suspCount, suspRem, blacklistRem, tokenRem, ticks,
                   hours, revoked, blockSetAt, userSessions>>
    /\ UNCHANGED nonAuthVars

\* User.findById, the isActive check, the device check (device tracking is off: every
\* device is known) and the check of req.route.path against user.permissions
AuthUserLookup(r) ==
    /\ reqs[r].pc = "user"
    /\ LET tok == reqs[r].tok
           q == [reqs[r] EXCEPT !.passed =
                    @ \cup (IF UserFound(tok) /\ UserIsActive(tok) THEN {"user"} ELSE {})]
       IN  \E hasPermission \in BOOLEAN :
              reqs' = [reqs EXCEPT ![r] =
                         IF ~UserFound(tok) THEN Thrown(q, "USER_NOT_FOUND", 401)
                         ELSE IF ~UserIsActive(tok) THEN Thrown(q, "ACCOUNT_DEACTIVATED", 401)
                         ELSE IF ~hasPermission THEN Thrown(q, "INSUFFICIENT_PERMISSIONS", 403)
                         ELSE [q EXCEPT !.pc = "count"]]
    /\ UNCHANGED <<held, blockedRem, suspCount, suspRem, blacklistRem, tokenRem, ticks,
                   hours, revoked, blockSetAt, sessionStore, userSessions>>
    /\ UNCHANGED nonAuthVars

\* RedisManager.get(user_sessions:<id>) against MAX_CONCURRENT_SESSIONS
AuthSessionCount(r) ==
    /\ reqs[r].pc = "count"
    /\ LET activeSessionsCount == Len(userSessions)
           q == [reqs[r] EXCEPT !.passed =
                    @ \cup (IF Len(userSessions) <= MAX_CONCURRENT_SESSIONS
                            THEN {"count"} ELSE {})]
       IN  reqs' = [reqs EXCEPT ![r] =
                      IF activeSessionsCount > MAX_CONCURRENT_SESSIONS
                      THEN Thrown(q, "SESSION_LIMIT_EXCEEDED", 429)
                      ELSE [q EXCEPT !.pc = "finish"]]
    /\ UNCHANGED <<held, blockedRem, suspCount, suspRem, blacklistRem, tokenRem, ticks,
                   hours, revoked, blockSetAt, sessionStore, userSessions>>
    /\ UNCHANGED nonAuthVars

\* req.user, logAuthAttempt(req, true), User.findByIdAndUpdate, next()
AuthFinish(r) ==
    /\ reqs[r].pc = "finish"
    /\ reqs' = [reqs EXCEPT ![r] =
                  IF reqs[r].wrapper = "role" THEN [reqs[r] EXCEPT !.pc = "roleCheck"]
                  ELSE IdleReq]
    /\ UNCHANGED <<held, blockedRem, suspCount, suspRem, blacklistRem, tokenRem, ticks,
                   hours, revoked, blockSetAt, sessionStore, userSessions>>
    /\ UNCHANGED nonAuthVars

\* catch: logAuthAttempt(req, false) and trackSuspiciousActivity: RedisManager.increment
AuthTrack(r) ==
    /\ reqs[r].pc = "track"
    /\ LET count == suspCount + 1
       IN  /\ suspCount' = count
           /\ suspRem' = HalfSeconds(SUSPICIOUS_TTL_SECONDS)
           /\ reqs' = [reqs EXCEPT ![r].pc =
                          IF count >= SUSPICIOUS_ACTIVITY_THRESHOLD THEN "alert" ELSE "respond"]
    /\ UNCHANGED <<held, blockedRem, blacklistRem, tokenRem, ticks, hours,
                   revoked, blockSetAt, sessionStore, userSessions>>
    /\ UNCHANGED nonAuthVars

\* triggerSecurityAlert that only logs the alert
AuthAlertLogsOnly(r) ==
    /\ reqs[r].pc = "alert"
    /\ reqs' = [reqs EXCEPT ![r].pc = "respond"]
    /\ UNCHANGED <<held, blockedRem, suspCount, suspRem, blacklistRem, tokenRem, ticks,
                   hours, revoked, blockSetAt, sessionStore, userSessions>>
    /\ UNCHANGED nonAuthVars

\* triggerSecurityAlert: RedisManager.set(blocked_ip:<ip>, true, 3600)
AuthAlert(r) ==
    /\ reqs[r].pc = "alert"
    /\ blockedRem' = HalfSeconds(BLOCK_TTL_SECONDS)
    /\ blockSetAt' = hours
    /\ reqs' = [reqs EXCEPT ![r].pc = "respond"]
    /\ UNCHANGED <<held, suspCount, suspRem, blacklistRem, tokenRem, ticks, hours,
                   revoked, sessionStore, userSessions>>
    /\ UNCHANGED nonAuthVars

\* res.status(error.statusCode).json({code: error.code})
AuthRespond(r) ==
    /\ reqs[r].pc = "respond"
    /\ reqs' = [reqs EXCEPT ![r] = IdleReq]
    /\ UNCHANGED <<held, blockedRem, suspCount, suspRem, blacklistRem, tokenRem, ticks,
                   hours, revoked, blockSetAt, sessionStore, userSessions>>
    /\ UNCHANGED nonAuthVars

----------------------------------------------------------------------------
(* useQRCodes.ts: the middleware variants optionalAuth and requireRole.    *)
(* The Authorization header is a string; the space stands for every        *)
(* character that String.prototype.trim removes.                           *)

Bearer == <<"B", "e", "a", "r", "e", "r", " ">>

\* the first index at which pat occurs in s, 0 if none
IndexOf(s, pat) ==
    LET hits == {i \in 1..(Len(s) - Len(pat) + 1) : SubSeq(s, i, i + Len(pat) - 1) = pat}
    IN  IF hits = {} THEN 0 ELSE CHOOSE i \in hits : \A j \in hits : i <= j

\* s.replace(pat, by) with a string pattern: the first occurrence only
ReplaceFirst(s, pat, by) ==
    LET i == IndexOf(s, pat)
    IN  IF i = 0 THEN s
        ELSE SubSeq(s, 1, i - 1) \o by \o SubSeq(s, i + Len(pat), Len(s))

\* what follows 'Bearer ' in the header: nothing, blanks, a token, a token after a blank
TokenTexts == {<<>>, <<" ">>, <<"j", "w", "t">>, <<" ", "j", "w", "t">>, <<"b", "a", "d">>}

\* req.header('Authorization')
Headers == {Undefined} \cup {Bearer \o txt : txt \in TokenTexts}

\* optionalAuth: req.header('Authorization')?.replace('Bearer ', '')
OptionalToken(header) ==
    IF header = Undefined THEN Undefined ELSE ReplaceFirst(header, Bearer, <<>>)

\* advancedAuth: authHeader?.replace('Bearer ', '')?.trim()
AdvancedToken(header) ==
    IF header = Undefined THEN Undefined ELSE Trim(ReplaceFirst(header, Bearer, <<>>))

\* the token a token text stands for
TokenNamed(text) ==
    IF ~Truthy(text) THEN "none"
    ELSE IF text = <<"j", "w", "t">> THEN held
    ELSE "tBad"

\* optionalAuth: without a token req.user = null, authMethod 'NONE' and next(); with
\* one advancedAuth, here up to its blocked_ip lookup
OptionalAuth(r) ==
    /\ reqs[r].pc = "idle"
    /\ suspCount + InFlight < SUSPICIOUS_ACTIVITY_THRESHOLD + MaxFailuresOverThreshold
    /\ \E header \in Headers :
          LET token == OptionalToken(header)
              isBlocked == blockedRem > 0
              q == [IdleReq EXCEPT !.wrapper = "optional",
                                   !.noToken = ~Truthy(AdvancedToken(header)),
                                   !.tok = TokenNamed(AdvancedToken(header)),
                                   !.passed = IF blockedRem > 0 THEN {} ELSE {"ip"},
                                   !.afterRevoke = (revoked /\ TokenNamed(AdvancedToken(header)) = held),
                                   !.afterBlock = (blockSetAt >= 0),
                                   !.withinHour = (blockSetAt = hours)]
          IN  reqs' = [reqs EXCEPT ![r] =
                         IF ~Truthy(token) THEN [q EXCEPT !.pc = "anonymous", !.passed = {}]
                         ELSE IF isBlocked THEN Thrown(q, "IP_BLOCKED", 403)
                         ELSE [q EXCEPT !.pc = "token"]]
    /\ UNCHANGED <<held, blockedRem, suspCount, suspRem, blacklistRem, tokenRem, ticks,
                   hours, revoked, blockSetAt, sessionStore, userSessions>>
    /\ UNCHANGED nonAuthVars

\* the handler after optionalAuth's next() for a request without token
AnonymousHandled(r) ==
    /\ reqs[r].pc = "anonymous"
    /\ reqs' = [reqs EXCEPT ![r] = IdleReq]
    /\ UNCHANGED <<held, blockedRem, suspCount, suspRem, blacklistRem, tokenRem, ticks,
                   hours, revoked, blockSetAt, sessionStore, userSessions>>
    /\ UNCHANGED nonAuthVars


\* the role of the user document (USER_ROLES.BASIC by default)
UserRole == "basic"

\* the roles argument of requireRole
RoleSets == SUBSET {"admin", "basic"}

\* requireRole(roles): advancedAuth with the role check as its next, here up to the
\* blocked_ip lookup
RequireRole(r) ==
    /\ reqs[r].pc = "idle"
    /\ suspCount + InFlight < SUSPICIOUS_ACTIVITY_THRESHOLD + MaxFailuresOverThreshold
    /\ \E tok \in {"none", "tBad", "tGone", "tOff", held}, roles \in RoleSets :
          LET isBlocked == blockedRem > 0
              q == [IdleReq EXCEPT !.wrapper = "role",
                                   !.roles = roles,
                                   !.tok = tok,
                                   !.passed = IF blockedRem > 0 THEN {} ELSE {"ip"},
                                   !.afterRevoke = (revoked /\ tok = held),
                                   !.afterBlock = (blockSetAt >= 0),
                                   !.withinHour = (blockSetAt = hours)]
          IN  reqs' = [reqs EXCEPT ![r] =
                         IF isBlocked THEN Thrown(q, "IP_BLOCKED", 403)
                         ELSE [q EXCEPT !.pc = "token"]]
    /\ UNCHANGED <<held, blockedRem, suspCount, suspRem, blacklistRem, tokenRem, ticks,
                   hours, revoked, blockSetAt, sessionStore, userSessions>>
    /\ UNCHANGED nonAuthVars

\* the callback of requireRole that calls next() whatever the role
RequireRoleCheckAnyRole(r) ==
    /\ reqs[r].pc = "roleCheck"
    /\ reqs' = [reqs EXCEPT ![r].pc = "handler"]
    /\ UNCHANGED <<held, blockedRem, suspCount, suspRem, blacklistRem, tokenRem, ticks,
                   hours, revoked, blockSetAt, sessionStore, userSessions>>
    /\ UNCHANGED nonAuthVars

\* the callback of requireRole: 403 INSUFFICIENT_ROLE or next()
RequireRoleCheck(r) ==
    /\ reqs[r].pc = "roleCheck"
    /\ reqs' = [reqs EXCEPT ![r] =
                  IF UserRole \notin reqs[r].roles
                  THEN [reqs[r] EXCEPT !.pc = "denied", !.code = "INSUFFICIENT_ROLE",
                                       !.status = 403]
                  ELSE [reqs[r] EXCEPT !.pc = "handler"]]
    /\ UNCHANGED <<held, blockedRem, suspCount, suspRem, blacklistRem, tokenRem, ticks,
                   hours, revoked, blockSetAt, sessionStore, userSessions>>
    /\ UNCHANGED nonAuthVars

\* the request of requireRole ends: the handler has answered, or the 403 is sent
RequireRoleEnds(r) ==
    /\ reqs[r].pc \in {"handler", "denied"}
    /\ reqs' = [reqs EXCEPT ![r] = IdleReq]
    /\ UNCHANGED <<held, blockedRem, suspCount, suspRem, blacklistRem, tokenRem, ticks,
                   hours, revoked, blockSetAt, sessionStore, userSessions>>
    /\ UNCHANGED nonAuthVars

\* Math.max(0, Math.floor((expiry * 1000 - Date.now()) / 1000)), in seconds
BlacklistTtl == tokenRem \div 2

\* logout: jwt.decode and TokenManager.blacklistToken(token, decoded.exp)
LogoutBlacklist(r) ==
    /\ reqs[r].pc = "idle"
    /\ \E tok \in {"none", held} :
          /\ reqs' = [reqs EXCEPT ![r] = [IdleReq EXCEPT !.pc = "logoutSession", !.tok = tok]]
          /\ blacklistRem' = IF tok # "none" /\ BlacklistTtl > 0
                             THEN HalfSeconds(BlacklistTtl)
                             ELSE blacklistRem
    /\ UNCHANGED <<held, blockedRem, suspCount, suspRem, tokenRem, ticks, hours,
                   revoked, blockSetAt, sessionStore, userSessions>>
    /\ UNCHANGED nonAuthVars

\* logout: SessionManager.invalidateSession(decoded.sessionId); res.json({success: true})
LogoutSession(r) ==
    /\ reqs[r].pc = "logoutSession"
    /\ sessionStore' = sessionStore \ {TokenSessionId(reqs[r].tok)}
    /\ revoked' = (revoked \/ (reqs[r].tok = held /\ tokenRem > 0))
    /\ reqs' = [reqs EXCEPT ![r] = IdleReq]
    /\ UNCHANGED <<held, blockedRem, suspCount, suspRem, blacklistRem, tokenRem, ticks,
                   hours, blockSetAt, userSessions>>
    /\ UNCHANGED nonAuthVars

Less(x, d) == IF x > d THEN x - d ELSE 0

\* d half seconds pass: the Redis keys and the token age
TimePasses(d) ==
    /\ blockedRem' = Less(blockedRem, d)
    /\ suspRem' = Less(suspRem, d)
    /\ suspCount' = IF suspRem > d THEN suspCount ELSE 0
    /\ blacklistRem' = Less(blacklistRem, d)
    /\ tokenRem' = Less(tokenRem, d)

HalfSecondPasses ==
    /\ ticks < MaxTicks
    /\ ticks' = ticks + 1
    /\ TimePasses(1)
    /\ UNCHANGED <<reqs, held, hours, revoked, blockSetAt, sessionStore, userSessions>>
    /\ UNCHANGED nonAuthVars

HourPasses ==
    /\ hours < MaxHours
    /\ hours' = hours + 1
    /\ TimePasses(HalfSeconds(3600))
    /\ UNCHANGED <<reqs, held, ticks, revoked, blockSetAt, sessionStore, userSessions>>
    /\ UNCHANGED nonAuthVars

----------------------------------------------------------------------------
(* backend/routes/qrcodes.js over the QRCode collection.  req.user is the  *)
(* user the auth middleware has authenticated; every await of a handler is *)
(* a step, so the two database commands of the favorite route are two      *)
(* steps.                                                                  *)

Users == {"alice", "bob"}

RecIds == 1..MaxRecords

NoRecord == [userId |-> "none", title |-> "none", isFavorite |-> FALSE]

Titles == {"t1", "t2"}

\* req.body of POST and PUT: a title, and a userId field or none
Bodies == [title : Titles, userId : Users \cup {"absent"}]

NoResponse == [route |-> "none", user |-> "none", status |-> 0, data |-> {}]

IdleToggle == [pc |-> "idle", id |-> 0, isFavorite |-> FALSE]

\* the documents matching {userId: req.user._id}
Matching(u) == {id \in RecIds : records[id] # NoRecord /\ records[id].userId = u}

\* the documents matching {_id: req.params.id, userId: req.user._id}
FindOne(u, id) == IF id \in Matching(u) THEN {id} ELSE {}

\* a record that exists under another userId than the requester's
Foreign(u, id) == records[id] # NoRecord /\ records[id].userId # u

\* history: the command of requester u returned the records of ids, and turned the
\* collection into after
Touches(u, ids, after) ==
    \/ \E id \in ids : Foreign(u, id)
    \/ \E id \in RecIds : Foreign(u, id) /\ after[id] # records[id]

\* history: the request of u that names id is answered with status and leaves after
Misanswers(u, id, status, after) ==
    Foreign(u, id) /\ (status # 404 \/ after[id] # records[id])

\* router.get('/'): QRCode.find(query) and countDocuments(query)
ListQRCodes(u) ==
    /\ response' = [route |-> "list", user |-> u, status |-> 200, data |-> Matching(u)]
    /\ foreignTouched' = (foreignTouched \/ Touches(u, Matching(u), records))
    /\ UNCHANGED <<records, nextId, toggles, wrongAnswer>>
    /\ UNCHANGED nonRouteVars

\* router.post('/'): new QRCode({...req.body, userId: req.user._id}).save()
CreateQRCode(u) ==
    /\ nextId < MaxRecords
    /\ \E body \in Bodies :
          LET qrCodeData == [userId |-> u, title |-> body.title, isFavorite |-> FALSE]
              after == [records EXCEPT ![nextId + 1] = qrCodeData]
          IN  /\ records' = after
              /\ nextId' = nextId + 1
              /\ response' = [route |-> "create", user |-> u, status |-> 201,
                              data |-> {nextId + 1}]
              /\ foreignTouched' = (foreignTouched \/ Touches(u, {}, after))
    /\ UNCHANGED <<toggles, wrongAnswer>>
    /\ UNCHANGED nonRouteVars

\* router.get('/:id'): QRCode.findOne({_id, userId})
GetQRCode(u) ==
    /\ \E id \in RecIds :
          LET qrCode == FindOne(u, id)
              status == IF qrCode = {} THEN 404 ELSE 200
          IN  /\ response' = [route |-> "get", user |-> u, status |-> status, data |-> qrCode]
              /\ foreignTouched' = (foreignTouched \/ Touches(u, qrCode, records))
              /\ wrongAnswer' = (wrongAnswer \/ Misanswers(u, id, status, records))
    /\ UNCHANGED <<records, nextId, toggles>>
    /\ UNCHANGED nonRouteVars

\* the update document req.body applied to a record
ApplyBody(rec, body) ==
    [rec EXCEPT !.title = body.title,
                !.userId = IF body.userId = "absent" THEN @ ELSE body.userId]

\* router.put('/:id'): QRCode.findOneAndUpdate({_id, userId}, req.body)
UpdateQRCode(u) ==
    /\ \E id \in RecIds, body \in Bodies :
          LET qrCode == FindOne(u, id)
              status == IF qrCode = {} THEN 404 ELSE 200
              after == IF qrCode = {} THEN records
                       ELSE [records EXCEPT ![id] = ApplyBody(@, body)]
          IN  /\ records' = after
              /\ response' = [route |-> "update", user |-> u, status |-> status,
                              data |-> qrCode]
              /\ foreignTouched' = (foreignTouched \/ Touches(u, qrCode, after))
              /\ wrongAnswer' = (wrongAnswer \/ Misanswers(u, id, status, after))
    /\ UNCHANGED <<nextId, toggles>>
    /\ UNCHANGED nonRouteVars

\* router.delete('/:id'): QRCode.findOneAndDelete({_id, userId})
DeleteQRCode(u) ==
    /\ \E id \in RecIds :
          LET qrCode == FindOne(u, id)
              status == IF qrCode = {} THEN 404 ELSE 200
              after == IF qrCode = {} THEN records ELSE [records EXCEPT ![id] = NoRecord]
          IN  /\ records' = after
              /\ response' = [route |-> "delete", user |-> u, status |-> status,
                              data |-> qrCode]
              /\ foreignTouched' = (foreignTouched \/ Touches(u, qrCode, after))
              /\ wrongAnswer' = (wrongAnswer \/ Misanswers(u, id, status, after))
    /\ UNCHANGED <<nextId, toggles>>
    /\ UNCHANGED nonRouteVars

\* router.delete('/'): QRCode.deleteMany({userId})
DeleteAllQRCodes(u) ==
    /\ LET after == [id \in RecIds |-> IF id \in Matching(u) THEN NoRecord ELSE records[id]]
       IN  /\ records' = after
           /\ response' = [route |-> "deleteAll", user |-> u, status |-> 200,
                           data |-> Matching(u)]
           /\ foreignTouched' = (foreignTouched \/ Touches(u, Matching(u), after))
    /\ UNCHANGED <<nextId, toggles, wrongAnswer>>
    /\ UNCHANGED nonRouteVars

\* router.patch('/:id/favorite'): QRCode.findOne({_id, userId})
ToggleFavoriteFind(u) ==
    /\ toggles[u].pc = "idle"
    /\ \E id \in RecIds :
          LET qrCode == FindOne(u, id)
              status == IF qrCode = {} THEN 404 ELSE 0
          IN  /\ toggles' = IF qrCode = {} THEN toggles
                            ELSE [toggles EXCEPT ![u] =
                                    [pc |-> "save", id |-> id,
                                     isFavorite |-> ~records[id].isFavorite]]
              /\ response' = IF qrCode = {}
                             THEN [route |-> "favorite", user |-> u, status |-> 404,
                                   data |-> {}]
                             ELSE response
              /\ foreignTouched' = (foreignTouched \/ Touches(u, qrCode, records))
              /\ wrongAnswer' = (wrongAnswer \/ Misanswers(u, id, status, records))
    /\ UNCHANGED <<records, nextId>>
    /\ UNCHANGED nonRouteVars

\* router.patch('/:id/favorite'): qrCode.save(), which updates the document of that
\* _id with the changed field and fails when there is none
ToggleFavoriteSave(u) ==
    /\ toggles[u].pc = "save"
    /\ LET id == toggles[u].id
           found == records[id] # NoRecord
           after == IF found
                    THEN [records EXCEPT ![id].isFavorite = toggles[u].isFavorite]
                    ELSE records
       IN  /\ records' = after
           /\ response' = [route |-> "favorite", user |-> u,
                           status |-> IF found THEN 200 ELSE 500,
                           data |-> IF found THEN {id} ELSE {}]
           /\ foreignTouched' = (foreignTouched \/ Touches(u, {}, after))
    /\ toggles' = [toggles EXCEPT ![u] = IdleToggle]
    /\ UNCHANGED <<nextId, wrongAnswer>>
    /\ UNCHANGED nonRouteVars

\* router.get('/stats/overview'): aggregate and countDocuments over {userId}
StatsOverview(u) ==
    /\ response' = [route |-> "stats", user |-> u, status |-> 200, data |-> Matching(u)]
    /\ foreignTouched' = (foreignTouched \/ Touches(u, Matching(u), records))
    /\ UNCHANGED <<records, nextId, toggles, wrongAnswer>>
    /\ UNCHANGED nonRouteVars

RoutesAtRest ==
    /\ records = [id \in RecIds |-> NoRecord]
    /\ nextId = 0
    /\ toggles = [u \in Users |-> IdleToggle]
    /\ response = NoResponse
    /\ foreignTouched = FALSE
    /\ wrongAnswer = FALSE

NextRoutes ==
    \E u \in Users :
        \/ ListQRCodes(u)
        \/ CreateQRCode(u)
        \/ GetQRCode(u)
        \/ UpdateQRCode(u)
        \/ DeleteQRCode(u)
        \/ DeleteAllQRCodes(u)
        \/ ToggleFavoriteFind(u)
        \/ ToggleFavoriteSave(u)
        \/ StatsOverview(u)

----------------------------------------------------------------------------
(* backend/models/User.js: the login-attempt methods of one user document. *)
(* The clock counts half hours.                                            *)

LOCKED == "locked"
ACTIVE == "active"
PENDING_VERIFICATION == "pending_verification"

MaxFailedAttempts == 5
LockoutHalfHours == 1
RestartGapHalfHours == 4

\* a Date field that is undefined
NoDate == -1

\* incrementLoginAttempt that never restarts the count
incrementLoginAttemptNoRestart(doc, t) ==
    LET attemptsNow == doc.failed + 1
    IN  IF attemptsNow >= MaxFailedAttempts
        THEN [doc EXCEPT !.failed = attemptsNow, !.lastFailedAt = t,
                         !.lockoutUntil = t + LockoutHalfHours, !.status = LOCKED]
        ELSE [doc EXCEPT !.failed = attemptsNow, !.lastFailedAt = t]

\* advancedUserSchema.methods.incrementLoginAttempt at time t
incrementLoginAttempt(doc, t) ==
    LET kept == IF doc.lastFailedAt # NoDate /\ t - doc.lastFailedAt > RestartGapHalfHours
                THEN 0 ELSE doc.failed
        attemptsNow == kept + 1
    IN  IF attemptsNow >= MaxFailedAttempts
        THEN [doc EXCEPT !.failed = attemptsNow, !.lastFailedAt = t,
                         !.lockoutUntil = t + LockoutHalfHours, !.status = LOCKED]
        ELSE [doc EXCEPT !.failed = attemptsNow, !.lastFailedAt = t]

\* advancedUserSchema.methods.resetLoginAttempts
resetLoginAttempts(doc) ==
    [doc EXCEPT !.failed = 0, !.lockoutUntil = NoDate,
                !.status = IF @ = LOCKED THEN ACTIVE ELSE @]

\* advancedUserSchema.methods.isLocked at time t
isLocked(doc, t) == doc.lockoutUntil # NoDate /\ doc.lockoutUntil > t

\* a failed login: user.incrementLoginAttempt()
FailedLogin ==
    /\ attempts < MaxAttempts
    /\ attempts' = attempts + 1
    /\ user' = incrementLoginAttempt(user, now)
    /\ LET gap == latestFailAt # NoDate /\ now - latestFailAt > RestartGapHalfHours
       IN  /\ streak' = IF gap THEN 1 ELSE streak + 1
           /\ streakSinceReset' = IF gap THEN 1 ELSE streakSinceReset + 1
           /\ restarted' = gap
    /\ latestFailAt' = now
    /\ UNCHANGED now
    /\ UNCHANGED nonLockVars

\* a successful login: user.resetLoginAttempts()
SuccessfulLogin ==
    /\ attempts < MaxAttempts
    /\ attempts' = attempts + 1
    /\ user' = resetLoginAttempts(user)
    /\ streakSinceReset' = 0
    /\ restarted' = FALSE
    /\ UNCHANGED <<now, streak, latestFailAt>>
    /\ UNCHANGED nonLockVars

\* half hours pass
ClockAdvances ==
    /\ \E d \in {1, RestartGapHalfHours, RestartGapHalfHours + 1} :
          /\ now + d <= MaxClock
          /\ now' = now + d
    /\ UNCHANGED <<user, attempts, streak, streakSinceReset, latestFailAt, restarted>>
    /\ UNCHANGED nonLockVars

LockoutAtRest ==
    /\ user = [failed |-> 0, lastFailedAt |-> NoDate, lockoutUntil |-> NoDate,
               status |-> PENDING_VERIFICATION]
    /\ now = 0
    /\ attempts = 0
    /\ streak = 0
    /\ streakSinceReset = 0
    /\ latestFailAt = NoDate
    /\ restarted = FALSE

NextLockout ==
    \/ FailedLogin
    \/ SuccessfulLogin
    \/ ClockAdvances

----------------------------------------------------------------------------
(* utils/qrGenerator.ts: generateBatchQRCodes.  A promise is named by the  *)
(* item whose processItem call made it; 0 names the promises the semaphore *)
(* array is filled with, which are resolved.  The callbacks that wait on   *)
(* settled promises run in the order in which they began to wait, before   *)
(* any continuation that is queued later.  concurrency is a positive       *)
(* integer and every item is an object with a content string.              *)

\* the value of a contents argument that is not an array
NotAnArray == << <<"<not an array>">> >>

\* item.content: a text, or a blank one, for which generateQRCode throws EMPTY_CONTENT
ItemContents == {<<"a">>, <<" ">>}

RECURSIVE SeqsUpTo(_, _)
SeqsUpTo(S, n) ==
    IF n = 0 THEN {<<>>}
    ELSE LET shorter == SeqsUpTo(S, n - 1)
         IN  shorter \cup {Append(s, x) : s \in {q \in shorter : Len(q) = n - 1}, x \in S}

BatchInputs == SeqsUpTo(ItemContents, MaxItems) \cup {NotAnArray}

Items == 1..Len(contents)

\* the promise is settled
Settled(p) == IF p = 0 THEN TRUE ELSE itemPc[p] \in {"ok", "failed"}

\* generateQRCode throws for blank content before it looks at the cache
EmptyContent(content) == Trim(content) = <<>>

\* the generateQRCode calls of the batch that have begun and not settled; a call with
\* blank content has thrown before its first await
InFlightCalls == {i \in Items : itemPc[i] = "running" /\ ~EmptyContent(contents[i])}

\* a map callback whose awaited promise is settled has its continuation queued
Queued(i) == itemPc[i] = "waiting" /\ Settled(awaited[i])

\* generateBatchQRCodes up to Promise.allSettled: the argument check, the semaphore
\* array, and contents.map, in which every callback runs up to its await
GenerateBatchQRCodes ==
    /\ bpc = "idle"
    /\ \E input \in BatchInputs, c \in 1..MaxConcurrency :
          /\ contents' = input
          /\ concurrency' = c
          /\ IF input = NotAnArray \/ Len(input) = 0
             THEN /\ bpc' = "rejected"
                  /\ berr' = "EMPTY_BATCH"
                  /\ itemPc' = <<>>
                  /\ awaited' = <<>>
                  /\ UNCHANGED <<semaphore, semaphoreIndex>>
             ELSE /\ bpc' = "running"
                  /\ berr' = "none"
                  /\ semaphore' = [k \in 0..(c - 1) |-> 0]
                  /\ semaphoreIndex' = 0
                  /\ itemPc' = [i \in 1..Len(input) |-> "waiting"]
                  /\ awaited' = [i \in 1..Len(input) |-> 0]
    /\ successful' = <<>>
    /\ failed' = <<>>
    /\ UNCHANGED nonBatchVars

\* a map callback goes on after its await: it takes the slot, moves semaphoreIndex and
\* calls processItem, which calls generateQRCode
ItemResumes(i) ==
    /\ bpc = "running"
    /\ Queued(i)
    /\ \A j \in Items : Queued(j) => i <= j
    /\ LET currentIndex == semaphoreIndex
       IN  /\ semaphoreIndex' = (semaphoreIndex + 1) % concurrency
           /\ semaphore' = [semaphore EXCEPT ![currentIndex] = i]
    /\ itemPc' = [itemPc EXCEPT ![i] = "running"]
    /\ UNCHANGED <<contents, concurrency, bpc, berr, awaited, successful, failed>>
    /\ UNCHANGED nonBatchVars

\* processItem: generateQRCode resolved (from the cache or the encoder); the result
\* pushed to successful is written as the content it encodes
ItemSucceeds(i) ==
    /\ bpc = "running"
    /\ itemPc[i] = "running"
    /\ \A j \in Items : ~Queued(j)
    /\ ~EmptyContent(contents[i])
    /\ successful' = Append(successful, contents[i])
    /\ itemPc' = [itemPc EXCEPT ![i] = "ok"]
    /\ UNCHANGED <<contents, concurrency, bpc, berr, awaited, semaphore, semaphoreIndex,
                   failed>>
    /\ UNCHANGED nonBatchVars

\* processItem that lets the error of generateQRCode escape
ItemFailsUncaught(i) ==
    /\ bpc = "running"
    /\ itemPc[i] = "running"
    /\ \A j \in Items : ~Queued(j)
    /\ itemPc' = [itemPc EXCEPT ![i] = "failed"]
    /\ UNCHANGED <<contents, concurrency, bpc, berr, awaited, semaphore, semaphoreIndex,
                   successful, failed>>
    /\ UNCHANGED nonBatchVars

\* processItem: generateQRCode threw (EMPTY_CONTENT or GENERATION_FAILED), the catch
\* pushes the item's content and the error
ItemFails(i) ==
    /\ bpc = "running"
    /\ itemPc[i] = "running"
    /\ \A j \in Items : ~Queued(j)
    /\ failed' = Append(failed, [content |-> contents[i],
                                 error |-> IF EmptyContent(contents[i]) THEN "EMPTY_CONTENT"
                                           ELSE "GENERATION_FAILED"])
    /\ itemPc' = [itemPc EXCEPT ![i] = "failed"]
    /\ UNCHANGED <<contents, concurrency, bpc, berr, awaited, semaphore, semaphoreIndex,
                   successful>>
    /\ UNCHANGED nonBatchVars

\* Promise.allSettled(promises) is settled: return {successful, failed}
BatchResolves ==
    /\ bpc = "running"
    /\ \A i \in Items : Settled(i)
    /\ bpc' = "resolved"
    /\ UNCHANGED <<contents, concurrency, berr, itemPc, awaited, semaphore, semaphoreIndex,
                   successful, failed>>
    /\ UNCHANGED nonBatchVars

\* the caller has the outcome and may call again
BatchCallReturns ==
    /\ bpc \in {"resolved", "rejected"}
    /\ bpc' = "idle"
    /\ UNCHANGED <<contents, concurrency, berr, itemPc, awaited, semaphore, semaphoreIndex,
                   successful, failed>>
    /\ UNCHANGED nonBatchVars

BatchAtRest ==
    /\ contents = <<>>
    /\ concurrency = 1
    /\ bpc = "idle"
    /\ berr = "none"
    /\ itemPc = <<>>
    /\ awaited = <<>>
    /\ semaphore = [k \in {0} |-> 0]
    /\ semaphoreIndex = 0
    /\ successful = <<>>
    /\ failed = <<>>

NextBatch ==
    \/ GenerateBatchQRCodes
    \/ \E i \in Items :
          \/ ItemResumes(i)
          \/ ItemSucceeds(i)
          \/ ItemFails(i)
    \/ BatchResolves
    \/ BatchCallReturns

----------------------------------------------------------------------------
(* utils/qrScanner.ts: parseWiFiQR, applied to the payload of a QR code    *)
(* that generateWiFiQRCode produced.                                       *)

\* the least index from i on at which s has a semicolon, 0 if none: where [^;]* stops
NextSemicolon(s, i) ==
    LET hits == {j \in i..Len(s) : s[j] = ";"}
    IN  IF hits = {} THEN 0 ELSE CHOOSE j \in hits : \A k \in hits : j <= k

\* s has the text lit at index i
HasAt(s, i, lit) == i + Len(lit) - 1 <= Len(s) /\ SubSeq(s, i, i + Len(lit) - 1) = lit

\* parseWiFiQR returned null
NoMatch == [matched |-> FALSE, groups |-> <<>>]

\* /WIFI:T:([^;]*);S:([^;]*);P:([^;]*);H:([^;]*);/ tried at index i of s: each group runs
\* to the next semicolon, and no shorter group can match since a semicolon must follow
MatchAt(s, i) ==
    IF ~HasAt(s, i, <<"W", "I", "F", "I", ":", "T", ":">>) THEN NoMatch
    ELSE LET t0 == i + 7
             e1 == NextSemicolon(s, t0)
         IN  IF e1 = 0 \/ ~HasAt(s, e1, <<";", "S", ":">>) THEN NoMatch
             ELSE LET s0 == e1 + 3
                      e2 == NextSemicolon(s, s0)
                  IN  IF e2 = 0 \/ ~HasAt(s, e2, <<";", "P", ":">>) THEN NoMatch
                      ELSE LET p0 == e2 + 3
                               e3 == NextSemicolon(s, p0)
                           IN  IF e3 = 0 \/ ~HasAt(s, e3, <<";", "H", ":">>) THEN NoMatch
                               ELSE LET h0 == e3 + 3
                                        e4 == NextSemicolon(s, h0)
                                    IN  IF e4 = 0 THEN NoMatch
                                        ELSE [matched |-> TRUE,
                                              groups |-> <<SubSeq(s, t0, e1 - 1),
                                                           SubSeq(s, s0, e2 - 1),
                                                           SubSeq(s, p0, e3 - 1),
                                                           SubSeq(s, h0, e4 - 1)>>]

\* content.match(regex): the match at the leftmost index that has one
Match(s) ==
    LET starts == {i \in 1..Len(s) : MatchAt(s, i).matched}
    IN  IF starts = {} THEN NoMatch
        ELSE MatchAt(s, CHOOSE i \in starts : \A j \in starts : i <= j)

\* the value parseWiFiQR returns for null
NoWiFi == [isNull |-> TRUE, security |-> <<>>, ssid |-> <<>>, password |-> <<>>,
           hidden |-> FALSE]

parseWiFiQR(content) ==
    LET match == Match(content)
    IN  IF match.matched
        THEN [isNull |-> FALSE,
              security |-> OrElse(match.groups[1], WPA),
              ssid |-> OrElse(match.groups[2], <<>>),
              password |-> OrElse(match.groups[3], <<>>),
              hidden |-> match.groups[4] = <<"t", "r", "u", "e">>]
        ELSE NoWiFi

\* the QR code of a resolved generateWiFiQRCode call is scanned and its content parsed
ScanWiFiQR ==
    /\ wpc = "resolved"
    /\ scan.pc = "none"
    /\ scan' = [pc |-> "parsed", content |-> wifiString, result |-> parseWiFiQR(wifiString)]
    /\ UNCHANGED wifiVars
    /\ UNCHANGED <<sessVars, authVars, routeVars, lockVars, batchVars>>

\* the scan result is dismissed
ScanDismissed ==
    /\ scan.pc = "parsed"
    /\ scan' = [pc |-> "none", content |-> <<>>, result |-> NoWiFi]
    /\ UNCHANGED wifiVars
    /\ UNCHANGED <<sessVars, authVars, routeVars, lockVars, batchVars>>

ScanAtRest == scan = [pc |-> "none", content |-> <<>>, result |-> NoWiFi]

----------------------------------------------------------------------------
(* Initial states and specifications                                       *)

AuthAtRest ==
    /\ reqs = [r \in Slots |-> IdleReq]
    /\ held = "tPlain"
    /\ blockedRem = 0
    /\ suspCount = 0
    /\ suspRem = 0
    /\ blacklistRem = 0
    /\ tokenRem = 0
    /\ ticks = 0
    /\ hours = 0
    /\ revoked = FALSE
    /\ blockSetAt = -1

\* the user holds one token and has one session; no request has failed yet
AuthFresh ==
    /\ reqs = [r \in Slots |-> IdleReq]
    /\ held \in UserTokens
    /\ blockedRem = 0
    /\ suspCount = 0
    /\ suspRem = 0
    /\ blacklistRem = 0
    /\ ticks = 0
    /\ hours = 0
    /\ revoked = FALSE
    /\ blockSetAt = -1
    /\ nextSid = 0
    /\ newCount = 0
    /\ calls = [c \in Callers |-> IdleCall]
    /\ created = {}
    /\ terminated = {}
    /\ allStarted = FALSE
    /\ allAlone = FALSE
    /\ staleAccepted = FALSE
    /\ WiFiAtRest
    /\ RoutesAtRest
    /\ LockoutAtRest
    /\ BatchAtRest
    /\ ScanAtRest

\* the token was just issued; the user's session list holds the one session, or is a
\* list written while MAX_CONCURRENT_SESSIONS was configured higher
InitAuth ==
    /\ AuthFresh
    /\ tokenRem = HalfSeconds(ACCESS_TOKEN_EXPIRY_SECONDS)
    /\ \E n \in {1, MAX_CONCURRENT_SESSIONS + 1} :
          /\ userSessions = [i \in 1..n |-> i]
          /\ sessionStore = 1..n

\* the token was issued up to ACCESS_TOKEN_EXPIRY ago
InitRevoke ==
    /\ AuthFresh
    /\ tokenRem \in (1..NearExpiry) \cup {HalfSeconds(ACCESS_TOKEN_EXPIRY_SECONDS)}
    /\ userSessions = <<1>>
    /\ sessionStore = {1}

AuthStep(r) ==
    \/ AuthIpCheck(r)
    \/ AuthTokenCheck(r)
    \/ AuthSessionGet(r)
    \/ AuthSessionSet(r)
    \/ AuthUserLookup(r)
    \/ AuthSessionCount(r)
    \/ AuthFinish(r)
    \/ AuthTrack(r)
    \/ AuthAlert(r)
    \/ AuthRespond(r)
    \/ LogoutBlacklist(r)
    \/ LogoutSession(r)

NextAuth ==
    \/ \E r \in Slots : AuthStep(r)
    \/ HourPasses

NextRevoke ==
    \/ \E r \in Slots : AuthStep(r)
    \/ HalfSecondPasses

\* the steps of advancedAuth after its blocked_ip lookup
AuthRest(r) ==
    \/ AuthTokenCheck(r)
    \/ AuthSessionGet(r)
    \/ AuthSessionSet(r)
    \/ AuthUserLookup(r)
    \/ AuthSessionCount(r)
    \/ AuthFinish(r)
    \/ AuthTrack(r)
    \/ AuthAlert(r)
    \/ AuthRespond(r)

NextOptional ==
    \E r \in Slots :
        \/ OptionalAuth(r)
        \/ AnonymousHandled(r)
        \/ AuthRest(r)

NextRole ==
    \E r \in Slots :
        \/ RequireRole(r)
        \/ RequireRoleCheck(r)
        \/ RequireRoleEnds(r)
        \/ AuthRest(r)

SpecAuth == InitAuth /\ [][NextAuth]_vars

SpecRole == InitAuth /\ [][NextRole]_vars

SpecOptional == InitAuth /\ [][NextOptional]_vars

SpecRevoke == InitRevoke /\ [][NextRevoke]_vars

InitCreate ==
    /\ InitSession
    /\ WiFiAtRest
    /\ AuthAtRest
    /\ RoutesAtRest
    /\ LockoutAtRest
    /\ BatchAtRest
    /\ ScanAtRest

InitRoutes ==
    /\ RoutesAtRest
    /\ WiFiAtRest
    /\ SessionAtRest
    /\ AuthAtRest
    /\ LockoutAtRest
    /\ BatchAtRest
    /\ ScanAtRest

InitLockout ==
    /\ LockoutAtRest
    /\ BatchAtRest
    /\ ScanAtRest
    /\ WiFiAtRest
    /\ SessionAtRest
    /\ AuthAtRest
    /\ RoutesAtRest

InitBatch ==
    /\ WiFiAtRest
    /\ SessionAtRest
    /\ AuthAtRest
    /\ RoutesAtRest
    /\ LockoutAtRest
    /\ BatchAtRest
    /\ ScanAtRest

SpecBatch == InitBatch /\ [][NextBatch]_vars

\* the event loop runs every queued continuation, and the encoder settles every call
SpecBatchLive == InitBatch /\ [][NextBatch]_vars /\ WF_vars(NextBatch)

SpecRoutes == InitRoutes /\ [][NextRoutes]_vars

SpecLockout == InitLockout /\ [][NextLockout]_vars

SpecCreate == InitCreate /\ [][NextCreate]_vars

SpecSession == InitCreate /\ [][NextSession]_vars

InitWiFi ==
    /\ config \in Configs
    /\ wpc = "idle"
    /\ validation = NoValidation
    /\ wifiString = <<>>
    /\ werr = "none"
    /\ encoderInvoked = FALSE
    /\ cache = {}
    /\ cacheAtCall = {}
    /\ SessionAtRest
    /\ AuthAtRest
    /\ RoutesAtRest
    /\ LockoutAtRest
    /\ BatchAtRest
    /\ ScanAtRest

NextWiFi ==
    \/ GenerateWiFiQRCode
    \/ EncoderResolves
    \/ EncoderThrows
    \/ CallAgain
    \/ CacheTtlPasses

SpecWiFi == InitWiFi /\ [][NextWiFi]_vars

NextRoundTrip ==
    \/ NextWiFi
    \/ ScanWiFiQR
    \/ ScanDismissed

SpecRoundTrip == InitWiFi /\ [][NextRoundTrip]_vars

----------------------------------------------------------------------------
(* Claims about the WiFi payload (SpecWiFi)                                *)

EscapedChars == {"\\", "\"", ";", ",", ":"}

\* every character of EscapedChars preceded by exactly one added backslash
RECURSIVE OneBackslashBeforeEach(_)
OneBackslashBeforeEach(s) ==
    IF s = <<>> THEN <<>>
    ELSE LET n == Len(s)
         IN  OneBackslashBeforeEach(SubSeq(s, 1, n - 1))
               \o (IF s[n] \in EscapedChars THEN <<"\\", s[n]>> ELSE <<s[n]>>)

TextOrEmpty(s) == IF s = Undefined THEN <<>> ELSE s

\* C1: createWiFiString(config) is exactly WIFI:T:<T>;S:<S>;P:<P>;H:<H>;; with T the
\* security or nopass when the security is empty, S and P the ssid and the password
\* (empty when absent) with one added backslash before every backslash, double quote,
\* semicolon, comma and colon, and H true exactly when hidden is true.
C1_WiFiStringFormat ==
    wpc # "idle" =>
        wifiString =
            <<"W", "I", "F", "I", ":", "T", ":">>
              \o (IF config.security = <<>> THEN nopass ELSE config.security)
              \o <<";", "S", ":">> \o OneBackslashBeforeEach(TextOrEmpty(config.ssid))
              \o <<";", "P", ":">> \o OneBackslashBeforeEach(TextOrEmpty(config.password))
              \o <<";", "H", ":">>
              \o (IF config.hidden = "true" THEN <<"t", "r", "u", "e">>
                  ELSE <<"f", "a", "l", "s", "e">>)
              \o <<";", ";">>

C1_Witness ==
    /\ wpc # "idle"
    /\ config.ssid = <<"\\">>
    /\ config.password = <<";">>
    /\ config.security = <<>>
    /\ config.hidden = "undefined"
    /\ Len(wifiString) = 33

WhitespaceOnly(s) == \A i \in 1..Len(s) : s[i] = " "

SsidEmptyOrBlank(c) == c.ssid = Undefined \/ WhitespaceOnly(c.ssid)
SsidTooLong(c) == c.ssid # Undefined /\ Len(c.ssid) > 32
SecurityUnknown(c) == c.security # <<>> /\ c.security \notin {WPA, WPA2, WPA3, WEP, nopass}
PasswordMissing(c) ==
    c.security # <<>> /\ c.security # nopass /\ c.password \in {Undefined, <<>>}
PasswordTooLong(c) == c.password # Undefined /\ Len(c.password) > 63

\* C2: validateWiFiConfig(config).isValid is true exactly when the SSID is neither empty
\* nor whitespace-only nor longer than 32, the security is empty or one of WPA, WPA2,
\* WPA3, WEP, nopass, a secured network has a password, and the password is at most 63
\* characters long; warnings and suggestions do not enter.
C2_IsValidExactly ==
    wpc # "idle" =>
        (validation.isValid <=>
            ~(\/ SsidEmptyOrBlank(config)
              \/ SsidTooLong(config)
              \/ SecurityUnknown(config)
              \/ PasswordMissing(config)
              \/ PasswordTooLong(config)))

C2_Witness ==
    /\ wpc # "idle"
    /\ validation.isValid
    /\ Len(validation.warnings) = 2
    /\ Len(validation.suggestions) = 1
    /\ Len(config.ssid) = 1

\* C3: when validateWiFiConfig reports at least one error, generateWiFiQRCode rejects
\* with INVALID_WIFI_CONFIG, the encoder is not invoked and the cache is unchanged; it
\* resolves only for configs whose validation result has isValid true.
C3_InvalidConfigRejected ==
    /\ (wpc # "idle" /\ Len(validateWiFiConfig(config).errors) >= 1) =>
          /\ wpc = "rejected"
          /\ werr = "INVALID_WIFI_CONFIG"
          /\ ~encoderInvoked
          /\ cache = cacheAtCall
    /\ wpc = "resolved" => validateWiFiConfig(config).isValid

C3_Witness ==
    /\ wpc = "rejected"
    /\ werr = "INVALID_WIFI_CONFIG"
    /\ Len(validation.errors) = 3

C3_WitnessResolved ==
    /\ wpc = "resolved"
    /\ ~encoderInvoked
    /\ cache # {}

----------------------------------------------------------------------------
(* Claims about SessionManager (SpecCreate, SpecSession)                   *)

NoCallInFlight == \A c \in Callers : calls[c].pc = "idle"

\* C7: after any sequence of createSession calls for one user, overlapping ones
\* included, at most MAX_CONCURRENT_SESSIONS of the user's sessions are accepted by
\* validateSession (their session:<id> key exists).
C7_AtMostMaxSessions ==
    NoCallInFlight => Cardinality(sessionStore) <= MAX_CONCURRENT_SESSIONS

\* C8: once invalidateAllUserSessions has completed, validateSession returns null for
\* every session of the user created before the call: no validateSession begun after
\* the completion returns such a session.  The sessions counted are those whose
\* createSession returned before the call began; the call is the first of its kind and
\* ran with no other call in flight.
C8_AllSessionsTerminated == ~staleAccepted


----------------------------------------------------------------------------
(* Claims about advancedAuth, logout and the suspicious-activity block     *)

C4_WitnessRefused ==
    \E r \in Slots : /\ reqs[r].pc = "respond"
                     /\ reqs[r].code = "TOKEN_BLACKLISTED"
                     /\ "blacklist" \notin reqs[r].passed

\* C6: once logout has answered success for an unexpired token, every later request to
\* advancedAuth carrying that token, examined before the token's expiry, is rejected
\* with 401 TOKEN_BLACKLISTED and never reaches next().
C6_RevokedTokenRejected ==
    \A r \in Slots :
        (reqs[r].afterRevoke /\ reqs[r].checkedLive)
            => (reqs[r].code = "TOKEN_BLACKLISTED" /\ reqs[r].status = 401)

----------------------------------------------------------------------------
(* Claims about the QR-code routes and the account lockout                 *)

\* C5: for any sequence of requests by any set of users, the list, get-one, update,
\* delete-one, delete-all, toggle-favorite and stats routes return or modify only
\* records whose userId, when the database command runs, equals the requester's id;
\* and a get, update, delete or toggle request naming another user's record id is
\* answered 404 and leaves that record unchanged.
C5_PerUserIsolation == ~foreignTouched /\ ~wrongAnswer

LatestFailureLocks(n) ==
    n >= MaxFailedAttempts
        => /\ user.status = LOCKED
           /\ isLocked(user, now) <=> (now < latestFailAt + LockoutHalfHours)

\* C10 as stated: after 5 failed login attempts with no gap of more than 2 hours between
\* consecutive failures the status is LOCKED and isLocked() is true until 30 minutes
\* after the latest failed attempt; a failure arriving more than 2 hours after the
\* previous one restarts the failure count at 1.
C10_LockedAfterFiveFailures ==
    /\ LatestFailureLocks(streak)
    /\ restarted => user.failed = 1

\* C10: after 5 failed login attempts with no gap of more than 2 hours between
\* consecutive failures and no resetLoginAttempts among or after them, the status is
\* LOCKED and isLocked() is true until 30 minutes after the latest failed attempt; a
\* failure arriving more than 2 hours after the previous one restarts the failure
\* count at 1.
C10_LockedAfterFiveFailuresSinceReset ==
    /\ LatestFailureLocks(streakSinceReset)
    /\ restarted => user.failed = 1

\* the lockout of the fifth failure has run out, the status is still LOCKED
C10_Witness ==
    /\ streakSinceReset = MaxFailedAttempts
    /\ now = latestFailAt + LockoutHalfHours
    /\ user.status = LOCKED
    /\ ~isLocked(user, now)

\* a failure has restarted the count
C10_WitnessRestarted ==
    /\ restarted
    /\ streak = 1
    /\ user.status = LOCKED


----------------------------------------------------------------------------
(* Claims about optionalAuth and requireRole                               *)

\* C11: a request to optionalAuth without an Authorization token (none that advancedAuth
\* would extract from its header) reaches next() as an anonymous request and no error
\* response is sent for it; a request that carries a token is handled by advancedAuth
\* and reaches next() only with all its checks passed.
C11_OptionalAuthPassesNoToken ==
    \A r \in Slots :
        reqs[r].wrapper = "optional"
            => /\ reqs[r].noToken => (reqs[r].pc = "anonymous" /\ reqs[r].code = "none")
               /\ ~reqs[r].noToken => reqs[r].pc # "anonymous"
               /\ reqs[r].pc = "finish" => reqs[r].passed = AllChecks

\* C12: under requireRole(roles) the downstream handler is reached only when advancedAuth
\* accepted the request (all its checks passed) and the user's role is one of roles; an
\* authenticated user with any other role is answered 403 INSUFFICIENT_ROLE and the
\* handler is not reached.
C12_HandlerOnlyForRole ==
    \A r \in Slots :
        /\ reqs[r].pc = "handler"
              => (reqs[r].passed = AllChecks /\ UserRole \in reqs[r].roles)
        /\ reqs[r].pc = "denied"
              => /\ reqs[r].passed = AllChecks
                 /\ UserRole \notin reqs[r].roles
                 /\ reqs[r].code = "INSUFFICIENT_ROLE"
                 /\ reqs[r].status = 403

\* one request of the user is at the handler of a route for its role while another is
\* refused at a route for admin
C12_Witness ==
    \E r, s \in Slots :
        /\ reqs[r].pc = "handler" /\ reqs[r].roles = {"admin", "basic"}
        /\ reqs[s].pc = "denied" /\ reqs[s].roles = {"admin"}

----------------------------------------------------------------------------
(* Claims about generateBatchQRCodes                                       *)

\* C13: at no time are more than concurrency generateQRCode calls of one batch in flight.
C13_AtMostConcurrencyInFlight ==
    bpc = "running" => Cardinality(InFlightCalls) <= concurrency

ContentsOf(entries) == [k \in 1..Len(entries) |-> entries[k].content]

\* the number of indices at which x occurs in s
Occurrences(s, x) == Cardinality({k \in 1..Len(s) : s[k] = x})

C14_WitnessRejected ==
    /\ bpc = "rejected"
    /\ contents = NotAnArray
    /\ berr = "EMPTY_BATCH"

----------------------------------------------------------------------------
(* Claims about the WiFi payload round trip (SpecRoundTrip)                *)

\* C15: for a config that validateWiFiConfig accepts, parseWiFiQR applied to the payload
\* of createWiFiString returns the ssid, the password, the security (nopass for an empty
\* one) and the hidden flag that were put in.
C15_WiFiRoundTrip ==
    scan.pc = "parsed" /\ validateWiFiConfig(config).isValid
        => /\ scan.content = createWiFiString(config)
           /\ ~scan.result.isNull
           /\ scan.result.ssid = config.ssid
           /\ scan.result.password = OrElse(config.password, <<>>)
           /\ scan.result.security = OrElse(config.security, nopass)
           /\ scan.result.hidden = (config.hidden = "true")

=============================================================================
